---- MODULE Spec2Model ----
(***************************************************************************)
(* met_explorer_api.py: a Streamlit page.  Every user interaction reruns   *)
(* the script top to bottom against the session's st.session_state, the    *)
(* widget values, and the process-wide st.cache_data stores of met_search  *)
(* and met_get_object.  One action of the model is one such run.           *)
(***************************************************************************)
EXTENDS Integers, Sequences, FiniteSets, TLC

VARIABLES
    session_state,   \* per session: favorites, page, last_query, per_page, show_favorites
    widgets,         \* per session: query, only_with_images, per_page (the sidebar widgets)
    view,            \* per session: what the last run of the script rendered and did
    search_cache,    \* st.cache_data store of met_search, keyed by (q, has_images)
    object_cache,    \* st.cache_data store of met_get_object, keyed by object_id
    now,             \* wall clock, seconds
    actor,           \* the session that made the last run of the script
    probe            \* inputs and results of the pure-function specifications

vars == <<session_state, widgets, view, search_cache, object_cache, now, actor, probe>>

(***************************************************************************)
(* Bounds and program constants                                            *)
(***************************************************************************)
ttl == 3600                      \* @st.cache_data(ttl=3600)
DefaultPerPage == 12             \* session default / selectbox index=2
MaxTicks == 1                    \* the clock stops after MaxTicks validity windows
MaxN == 30                       \* longest result set of the pagination arithmetic
MaxPer == 18                     \* largest page size of the pagination arithmetic
MaxFav == 3                      \* object ids (and entries) of the favorites stores

PerPageOptions == {6, 9, 12, 18}             \* st.sidebar.selectbox options
Sessions == {"s1", "s2"}
Queries == {"", "monet", "renoir"}           \* texts typed into query_input
Texts == Queries \cup {"degas"}              \* all texts the remote is asked about
Catalogs == {"v1", "v2"}                     \* states of the remote collection
Revisions == {"v1", "v2"}                    \* states of an object record
ObjectIds == 1..7
FlakyIds == {2}                              \* objects whose detail call may fail
HasImagesArgs == {"True", "False", "None"}   \* Optional[bool]

MaxTime == MaxTicks * ttl

Min(a, b) == IF a < b THEN a ELSE b
Max(a, b) == IF a > b THEN a ELSE b

(***************************************************************************)
(* The remote collection API (the environment).  A reply is chosen by the  *)
(* run that makes the call: whether the search call succeeds, which state  *)
(* of the collection answers, and which object-detail calls fail.          *)
(***************************************************************************)
Reply(search_ok, catalog, revision, object_down) ==
    [search_ok |-> search_ok, catalog |-> catalog, revision |-> revision,
     object_down |-> object_down]

\* The JSON body of a search response: its objectIDs field may be absent/null.
\* Catalog v2 is the collection after an object was withdrawn from it.
RemoteSearch(q, hasImages, catalog) ==
    IF q = "monet" THEN
        IF hasImages = "true" THEN
            [present |-> TRUE,
             objectIDs |-> IF catalog = "v1" THEN <<1, 2, 3, 4, 5, 6, 7>>
                           ELSE <<1, 2, 3, 4, 5, 6>>]
        ELSE IF hasImages = "absent" THEN
            [present |-> TRUE,
             objectIDs |-> <<2, 1, 3, 4, 5, 6, 7>>]
        ELSE [present |-> TRUE, objectIDs |-> <<>>]
    ELSE IF q = "renoir" THEN
        IF hasImages = "absent" THEN [present |-> TRUE, objectIDs |-> <<6, 5, 4, 3, 2, 1>>]
        ELSE IF catalog = "v1" THEN [present |-> FALSE, objectIDs |-> <<>>]
        ELSE [present |-> TRUE, objectIDs |-> <<>>]
    ELSE IF q = "degas" THEN [present |-> TRUE, objectIDs |-> <<6, 5, 4, 3, 2, 1>>]
    ELSE [present |-> FALSE, objectIDs |-> <<>>]

\* The JSON body of an object response.
RemoteObject(object_id, revision) == [objectID |-> object_id, title |-> revision]

NoMeta == [objectID |-> 0, title |-> "none"]

(***************************************************************************)
(* Pagination arithmetic                                                   *)
(***************************************************************************)
\* Floor instead of ceiling.
total_pages_floor(total, per) == total \div per

\* total_pages = (total + per - 1) // per
total_pages(total, per) == (total + per - 1) \div per

\* Python's seq[a:b] for integers a, b: negative indices count from the end,
\* both are clamped to [0, len], and an empty range yields [].
PySlice(seq, a, b) ==
    LET n  == Len(seq)
        lo == IF a < 0 THEN Max(a + n, 0) ELSE Min(a, n)
        hi == IF b < 0 THEN Max(b + n, 0) ELSE Min(b, n)
    IN  IF lo >= hi THEN <<>> ELSE SubSeq(seq, lo + 1, hi)

\* The slice with its start one element late.
page_ids_late(ids, per, page) ==
    LET start == (page - 1) * per + 1
        end   == Min(start + per, Len(ids))
    IN  PySlice(ids, start, end)

\* The slice of the last page for any page beyond it.
page_ids_clamped(ids, per, page) ==
    LET last  == Max(1, total_pages(Len(ids), per))
        start == (Min(page, last) - 1) * per
        end   == Min(start + per, Len(ids))
    IN  PySlice(ids, start, end)

\* start = (page - 1) * per; end = min(start + per, total); ids[start:end]
page_ids(ids, per, page) ==
    LET start == (page - 1) * per
        end   == Min(start + per, Len(ids))
    IN  PySlice(ids, start, end)

(***************************************************************************)
(* st.cache_data(ttl=3600): one store per decorated function, keyed by the *)
(* arguments, holding (insertion time, value).  A stored value is served   *)
(* while its age is below ttl; otherwise the function body runs and its    *)
(* return value (never an exception) is stored with the current time.  The *)
(* store behind it (cachetools.TTLCache) drops its expired entries when it *)
(* stores a value.  Lookup, call and store are one step: the cache         *)
(* computes a missing value under its lock.                                *)
(***************************************************************************)
NoSearchEntry == [stored |-> FALSE, ts |-> 0, value |-> <<>>]
NoObjectEntry == [stored |-> FALSE, ts |-> 0, value |-> NoMeta]

\* A store that always misses.
CacheValidNever(e, t) == FALSE

\* A store without expiry.
CacheValidForever(e, t) == e.stored

CacheValid(e, t) == e.stored /\ t - e.ts < ttl

CacheExpire(cache, t, none) ==
    IF \A k \in DOMAIN cache : ~cache[k].stored \/ CacheValid(cache[k], t) THEN cache
    ELSE [k \in DOMAIN cache |-> IF CacheValid(cache[k], t) THEN cache[k] ELSE none]

CacheStore(cache, key, value, t, none) ==
    [CacheExpire(cache, t, none) EXCEPT ![key] = [stored |-> TRUE, ts |-> t, value |-> value]]

\* Calling a decorated function whose body returns r (r.ok = FALSE: it raised).
CacheCall(cache, key, r, t, none) ==
    IF CacheValid(cache[key], t)
    THEN [ok |-> TRUE, value |-> cache[key].value, requests |-> 0, cache |-> cache]
    ELSE [ok |-> r.ok, value |-> r.value, requests |-> r.requests,
          cache |-> IF r.ok THEN CacheStore(cache, key, r.value, t, none) ELSE cache]

\* The body without the guard of line 44: the empty text is sent as well.
met_search_body_unguarded(q, has_images, net) ==
    IF ~net.search_ok THEN [ok |-> FALSE, value |-> <<>>, requests |-> 1]
    ELSE [ok |-> TRUE, value |-> <<>>, requests |-> 1]

\* The body with js["objectIDs"] in place of js.get("objectIDs") or []: a
\* response without the field raises.
met_search_body_strict(q, has_images, net) ==
    IF q = "" THEN [ok |-> TRUE, value |-> <<>>, requests |-> 0]
    ELSE LET hasImages == IF has_images = "True" THEN "true"
                          ELSE IF has_images = "False" THEN "false"
                          ELSE "absent"
             js == RemoteSearch(q, hasImages, net.catalog)
         IN  IF ~net.search_ok \/ ~js.present
             THEN [ok |-> FALSE, value |-> <<>>, requests |-> 1]
             ELSE [ok |-> TRUE, value |-> js.objectIDs, requests |-> 1]

\* The body of met_search: ok = FALSE stands for the exception of
\* requests.get / raise_for_status; requests counts the remote calls made.
met_search_body(q, has_images, net) ==
    IF q = "" THEN [ok |-> TRUE, value |-> <<>>, requests |-> 0]
    ELSE LET hasImages == IF has_images = "True" THEN "true"
                          ELSE IF has_images = "False" THEN "false"
                          ELSE "absent"
             js == RemoteSearch(q, hasImages, net.catalog)
         IN  IF ~net.search_ok THEN [ok |-> FALSE, value |-> <<>>, requests |-> 1]
             ELSE [ok |-> TRUE,
                   value |-> IF js.present /\ js.objectIDs # <<>> THEN js.objectIDs ELSE <<>>,
                   requests |-> 1]

\* met_search as decorated: the result and the store after the call.
met_search(cache, q, has_images, t, net) ==
    CacheCall(cache, <<q, has_images>>, met_search_body(q, has_images, net), t, NoSearchEntry)

\* The body of met_get_object.
met_get_object_body(object_id, net) ==
    IF object_id \in net.object_down THEN [ok |-> FALSE, value |-> NoMeta, requests |-> 1]
    ELSE [ok |-> TRUE, value |-> RemoteObject(object_id, net.revision), requests |-> 1]

\* met_get_object as decorated.
met_get_object(cache, object_id, t, net) ==
    CacheCall(cache, object_id, met_get_object_body(object_id, net), t, NoObjectEntry)

(***************************************************************************)
(* st.session_state.favorites: a dict, i.e. a mapping that iterates in     *)
(* insertion order.  It is a sequence of (oid, meta) with distinct oids.   *)
(***************************************************************************)
FavKeys(favorites) == {favorites[i].oid : i \in 1..Len(favorites)}

FavValues(favorites) == [i \in 1..Len(favorites) |-> favorites[i].meta]

\* favorites.pop(oid, None)
FavPop(favorites, oid) == SelectSeq(favorites, LAMBDA e : e.oid # oid)

\* favorites[oid] = meta: a present key keeps its place, a new one goes last
FavSet(favorites, oid, meta) ==
    IF oid \in FavKeys(favorites)
    THEN [i \in 1..Len(favorites) |->
             IF favorites[i].oid = oid THEN [oid |-> oid, meta |-> meta] ELSE favorites[i]]
    ELSE Append(favorites, [oid |-> oid, meta |-> meta])

\* A toggle that never removes.
FavoriteToggleAddOnly(favorites, oid, meta) == FavSet(favorites, oid, meta)

\* The body of the favorite button of the details view.
FavoriteToggle(favorites, oid, meta) ==
    IF oid \in FavKeys(favorites) THEN FavPop(favorites, oid)
    ELSE FavSet(favorites, oid, meta)

\* A JSON object: its members in the order of the dict's keys, a member
\* being a name with a number or a string.
JsonObject(meta) ==
    <<[name |-> "objectID", number |-> meta.objectID, string |-> ""],
      [name |-> "title", number |-> 0, string |-> meta.title]>>

\* The array written from the last value to the first.
ExportJSONReversed(favorites) ==
    [i \in 1..Len(favorites) |-> JsonObject(favorites[Len(favorites) + 1 - i].meta)]

\* json.dumps(list(favorites.values()), indent=2): the array of the stored
\* records as JSON objects, in the iteration order of the dict.
ExportJSON(favorites) ==
    [i \in 1..Len(favorites) |-> JsonObject(FavValues(favorites)[i])]

(***************************************************************************)
(* One run of the script                                                   *)
(***************************************************************************)
\* The buttons: at most one returns True in a run, except that the favorite
\* button lives inside the block of the Details button of the same object.
NoClick == [show_favorites |-> FALSE, clear_favorites |-> FALSE, export |-> FALSE,
            back |-> FALSE, previous |-> FALSE, next |-> FALSE, favorite |-> 0]

\* What a run rendered: which branch ended it and the values it computed;
\* before is the page and last_query that the pagination block read, at the
\* time of the search, search_found the entry the search cache held then.
BlankView ==
    [kind |-> "prompt", query |-> "", has_images |-> "None", search_requests |-> 0,
     ids |-> <<>>, page |-> 0, total_pages |-> 0, page_ids |-> <<>>, items |-> <<>>,
     listing |-> <<>>, export |-> [made |-> FALSE, doc |-> <<>>],
     before |-> [page |-> 0, last_query |-> ""],
     at |-> 0, search_found |-> [stored |-> FALSE, ts |-> 0]]

\* Lines 16-23: the session defaults.
SessionDefaults ==
    [favorites |-> <<>>, page |-> 1, last_query |-> "", per_page |-> DefaultPerPage,
     show_favorites |-> FALSE]

\* A sidebar that applies the query-change step itself, in every run.
SidebarResets(ss, w, c) ==
    LET base == [ss EXCEPT !.per_page = w.per_page,
                           !.show_favorites = IF c.show_favorites THEN TRUE ELSE @,
                           !.favorites = IF c.clear_favorites THEN <<>> ELSE @]
    IN  IF w.query # base.last_query
        THEN [base EXCEPT !.page = 1, !.last_query = w.query] ELSE base

\* Lines 29-37: the sidebar.
Sidebar(ss, w, c) ==
    [ss EXCEPT !.per_page = w.per_page,
               !.show_favorites = IF c.show_favorites THEN TRUE ELSE @,
               !.favorites = IF c.clear_favorites THEN <<>> ELSE @]

\* Lines 77-90: the favorites view, which ends the run.
FavoritesView(ss, c) ==
    [session_state |-> [ss EXCEPT !.show_favorites = IF c.back THEN FALSE ELSE @],
     view |-> [BlankView EXCEPT
                 !.kind = "favorites",
                 !.listing = FavValues(ss.favorites),
                 !.export = IF ss.favorites # <<>> /\ c.export
                            THEN [made |-> TRUE, doc |-> ExportJSON(ss.favorites)]
                            ELSE @]]

\* The comparison of line 115 left out: the page is never reset.
QueryChangedNever(ss, query) == FALSE

\* The comparison of line 115 always true: every run resets the page.
QueryChangedAlways(ss, query) == TRUE

\* Lines 113-118: reset page if query changed.
QueryChanged(ss, query) == query # ss.last_query

\* A reset that also drops the favorites.
ResetPageForgetsFavorites(ss, query) ==
    IF QueryChanged(ss, query)
    THEN [ss EXCEPT !.page = 1, !.last_query = query, !.favorites = <<>>] ELSE ss

ResetPage(ss, query) ==
    IF QueryChanged(ss, query) THEN [ss EXCEPT !.page = 1, !.last_query = query] ELSE ss

\* The buttons without their guards on the page number.
NavigateUnguarded(ss, c, page, pages) ==
    LET prev == IF c.previous THEN [ss EXCEPT !.page = page - 1] ELSE ss
    IN  IF c.next THEN [prev EXCEPT !.page = page + 1] ELSE prev

\* Lines 126-130: the Previous and Next buttons, page being the page displayed.
Navigate(ss, c, page, pages) ==
    LET prev == IF c.previous /\ page > 1 THEN [ss EXCEPT !.page = page - 1] ELSE ss
    IN  IF c.next /\ page < pages THEN [prev EXCEPT !.page = page + 1] ELSE prev

\* Lines 136-181: one iteration of the gallery loop.  acc carries the object
\* cache, the favorites and the items rendered so far.
GalleryItem(acc, oid, c, t, net) ==
    LET r == met_get_object(acc.object_cache, oid, t, net)
    IN  IF ~r.ok
        THEN [acc EXCEPT !.items = Append(@, [oid |-> oid, ok |-> FALSE,
                                              requests |-> r.requests, meta |-> NoMeta])]
        ELSE [object_cache |-> r.cache,
              favorites |-> IF c.favorite = oid
                            THEN FavoriteToggle(acc.favorites, oid, r.value)
                            ELSE acc.favorites,
              items |-> Append(acc.items, [oid |-> oid, ok |-> TRUE,
                                           requests |-> r.requests, meta |-> r.value])]

\* A loop that a failed object ends.
RECURSIVE GalleryStopsAtFailure(_, _, _, _, _, _)
GalleryStopsAtFailure(acc, oids, i, c, t, net) ==
    IF i > Len(oids) \/ (acc.items # <<>> /\ ~acc.items[Len(acc.items)].ok) THEN acc
    ELSE GalleryStopsAtFailure(GalleryItem(acc, oids[i], c, t, net), oids, i + 1, c, t, net)

RECURSIVE Gallery(_, _, _, _, _, _)
Gallery(acc, oids, i, c, t, net) ==
    IF i > Len(oids) THEN acc
    ELSE Gallery(GalleryItem(acc, oids[i], c, t, net), oids, i + 1, c, t, net)

\* Pagination with the buttons evaluated before the slice: the run of a
\* click already shows the new page.
PaginateEager(ss0, query, ids, c, ocache, t, net) ==
    LET per   == ss0.per_page
        pages == total_pages(Len(ids), per)
        ss1   == ResetPage(ss0, query)
        ss2   == Navigate(ss1, c, ss1.page, pages)
        page  == ss2.page
        shown == page_ids(ids, per, page)
        g     == Gallery([object_cache |-> ocache, favorites |-> ss2.favorites,
                          items |-> <<>>], shown, 1, c, t, net)
    IN  [session_state |-> [ss2 EXCEPT !.favorites = g.favorites],
         object_cache |-> g.object_cache,
         view |-> [BlankView EXCEPT !.kind = "gallery", !.ids = ids, !.page = page,
                                    !.total_pages = pages, !.page_ids = shown,
                                    !.items = g.items,
                                    !.before = [page |-> ss0.page,
                                                last_query |-> ss0.last_query]]]

\* Lines 110-181: pagination and gallery for a non-empty result.
Paginate(ss0, query, ids, c, ocache, t, net) ==
    LET per   == ss0.per_page
        pages == total_pages(Len(ids), per)
        ss1   == ResetPage(ss0, query)
        page  == IF QueryChanged(ss0, query) THEN 1 ELSE ss0.page
        shown == page_ids(ids, per, page)
        ss2   == Navigate(ss1, c, page, pages)
        g     == Gallery([object_cache |-> ocache, favorites |-> ss2.favorites,
                          items |-> <<>>], shown, 1, c, t, net)
    IN  [session_state |-> [ss2 EXCEPT !.favorites = g.favorites],
         object_cache |-> g.object_cache,
         view |-> [BlankView EXCEPT !.kind = "gallery", !.ids = ids, !.page = page,
                                    !.total_pages = pages, !.page_ids = shown,
                                    !.items = g.items,
                                    !.before = [page |-> ss0.page,
                                                last_query |-> ss0.last_query]]]

\* The whole script, lines 16-189.
Script(ss0, w, c, scache, ocache, t, net) ==
    LET ss  == Sidebar(ss0, w, c)
        has == IF w.only_with_images THEN "True" ELSE "None"
        r   == met_search(scache, w.query, has, t, net)
        fv  == FavoritesView(ss, c)
        pg  == Paginate(ss, w.query, r.value, c, ocache, t, net)
        found == [stored |-> scache[<<w.query, has>>].stored,
                  ts |-> scache[<<w.query, has>>].ts]
        searched == [BlankView EXCEPT !.query = w.query, !.has_images = has,
                                      !.search_requests = r.requests,
                                      !.at = t, !.search_found = found]
    IN  IF ss.show_favorites
        THEN [session_state |-> fv.session_state, search_cache |-> scache,
              object_cache |-> ocache, view |-> fv.view]
        ELSE IF w.query = ""
        THEN [session_state |-> ss, search_cache |-> scache, object_cache |-> ocache,
              view |-> BlankView]
        ELSE IF ~r.ok
        THEN [session_state |-> ss, search_cache |-> r.cache, object_cache |-> ocache,
              view |-> [searched EXCEPT !.kind = "error"]]
        ELSE IF r.value = <<>>
        THEN [session_state |-> ss, search_cache |-> r.cache, object_cache |-> ocache,
              view |-> [searched EXCEPT !.kind = "noresults"]]
        ELSE [session_state |-> pg.session_state, search_cache |-> r.cache,
              object_cache |-> pg.object_cache,
              view |-> [pg.view EXCEPT !.query = w.query, !.has_images = has,
                                       !.search_requests = r.requests,
                                       !.at = t, !.search_found = found]]

(***************************************************************************)
(* The state machine: user interactions, each followed by a run            *)
(***************************************************************************)
SearchKeys == Texts \X HasImagesArgs

NoProbe == [op |-> "none"]

WidgetDefaults == [query |-> "", only_with_images |-> TRUE, per_page |-> DefaultPerPage]

\* The state after the first run of a new session: defaults, empty query, prompt.
Init ==
    /\ session_state = [s \in Sessions |-> SessionDefaults]
    /\ widgets = [s \in Sessions |-> WidgetDefaults]
    /\ view = [s \in Sessions |-> [event |-> "start", out |-> BlankView]]
    /\ search_cache = [k \in SearchKeys |-> NoSearchEntry]
    /\ object_cache = [o \in ObjectIds |-> NoObjectEntry]
    /\ now = 0
    /\ actor = "none"
    /\ probe = NoProbe

\* The run with favorites, page, last_query and per_page kept in one
\* process-global object instead of st.session_state.
RunProcessGlobal(s, event, w, c, net) ==
    LET r == Script(session_state["s1"], w, c, search_cache, object_cache, now, net)
    IN  /\ widgets' = [widgets EXCEPT ![s] = w]
        /\ session_state' = [t \in Sessions |-> r.session_state]
        /\ view' = [view EXCEPT ![s] = [event |-> event, out |-> r.view]]
        /\ search_cache' = r.search_cache
        /\ object_cache' = r.object_cache
        /\ actor' = s
        /\ UNCHANGED <<now, probe>>

\* Session s reruns the script with widget values w and button clicks c.
Run(s, event, w, c, net) ==
    LET r == Script(session_state[s], w, c, search_cache, object_cache, now, net)
    IN  /\ widgets' = [widgets EXCEPT ![s] = w]
        /\ session_state' = [session_state EXCEPT ![s] = r.session_state]
        /\ view' = [view EXCEPT ![s] = [event |-> event, out |-> r.view]]
        /\ search_cache' = r.search_cache
        /\ object_cache' = r.object_cache
        /\ actor' = s
        /\ UNCHANGED <<now, probe>>

Shown(s) == view[s].out

SetQuery(s, q, net) ==
    /\ q # widgets[s].query
    /\ Run(s, "input", [widgets[s] EXCEPT !.query = q], NoClick, net)

ToggleOnlyWithImages(s, net) ==
    /\ widgets[s].only_with_images \in BOOLEAN
    /\ Run(s, "input", [widgets[s] EXCEPT !.only_with_images = ~@], NoClick, net)

SelectPerPage(s, p, net) ==
    /\ p # widgets[s].per_page
    /\ Run(s, "input", [widgets[s] EXCEPT !.per_page = p], NoClick, net)

ClickShowFavorites(s, net) ==
    /\ s \in Sessions
    /\ Run(s, "show_favorites", widgets[s], [NoClick EXCEPT !.show_favorites = TRUE], net)

ClickClearFavorites(s, net) ==
    /\ s \in Sessions
    /\ Run(s, "clear_favorites", widgets[s], [NoClick EXCEPT !.clear_favorites = TRUE], net)

ClickExport(s, net) ==
    /\ Shown(s).kind = "favorites" /\ Shown(s).listing # <<>>
    /\ Run(s, "export", widgets[s], [NoClick EXCEPT !.export = TRUE], net)

ClickBack(s, net) ==
    /\ Shown(s).kind = "favorites"
    /\ Run(s, "back", widgets[s], [NoClick EXCEPT !.back = TRUE], net)

ClickPrevious(s, net) ==
    /\ Shown(s).kind = "gallery"
    /\ Run(s, "previous", widgets[s], [NoClick EXCEPT !.previous = TRUE], net)

ClickNext(s, net) ==
    /\ Shown(s).kind = "gallery"
    /\ Run(s, "next", widgets[s], [NoClick EXCEPT !.next = TRUE], net)

\* Details (or Download) of a rendered item: a rerun that clicks nothing else.
ClickDetails(s, net) ==
    /\ Shown(s).kind = "gallery"
    /\ Run(s, "details", widgets[s], NoClick, net)

\* The favorite button in the details of a rendered item oid.
ClickFavorite(s, oid, net) ==
    /\ Shown(s).kind = "gallery"
    /\ \E i \in 1..Len(Shown(s).items) : Shown(s).items[i].oid = oid /\ Shown(s).items[i].ok
    /\ Run(s, "favorite", widgets[s], [NoClick EXCEPT !.favorite = oid], net)

\* Time passes: step seconds.
Tick(step) ==
    /\ now + step <= MaxTime
    /\ now' = now + step
    /\ UNCHANGED <<session_state, widgets, view, search_cache, object_cache, actor, probe>>

FavoriteClickIds == {1, 2}
\* The page sizes picked: 9 and 18 show the result sets above on one page, as 12 does.
PerPageChoices == PerPageOptions \ {9, 18}

\* Replies of a remote that never fails on objects and keeps their records.
PagingReplies == {Reply(TRUE, cat, "v1", {}) : cat \in Catalogs} \cup {Reply(FALSE, "v1", "v1", {})}

\* Searching and paging: the query text, the filter, the page size, the
\* Previous and Next buttons, and the clock.
Paging(s) ==
    \E net \in PagingReplies :
        \/ \E q \in Queries : SetQuery(s, q, net)
        \/ ToggleOnlyWithImages(s, net)
        \/ \E p \in PerPageChoices : SelectPerPage(s, p, net)
        \/ ClickPrevious(s, net)
        \/ ClickNext(s, net)

Next == Paging("s1") \/ Tick(ttl)

Spec == Init /\ [][Next]_vars

(***************************************************************************)
(* The same page against a remote that fails and changes, with the clock   *)
(* advancing by half a validity window: one query text, the default page   *)
(* size, reruns.                                                           *)
(***************************************************************************)
CachingReplies ==
    {Reply(TRUE, "v1", "v1", {}), Reply(TRUE, "v2", "v2", {}),
     Reply(FALSE, "v1", "v1", {}), Reply(TRUE, "v1", "v1", FlakyIds)}

Caching(s) ==
    \E net \in CachingReplies :
        \/ \E q \in {"", "monet"} : SetQuery(s, q, net)
        \/ ToggleOnlyWithImages(s, net)
        \/ ClickDetails(s, net)

NextCaching == Caching("s1") \/ Tick(ttl \div 2)

SpecCaching == Init /\ [][NextCaching]_vars

(***************************************************************************)
(* The same page with the favorites controls: one query text, the default  *)
(* page size, object records that change at the remote.                    *)
(***************************************************************************)
FavoritesReplies == {Reply(TRUE, "v1", rev, {}) : rev \in Revisions}

Favoriting(s) ==
    \E net \in FavoritesReplies :
        \/ \E q \in {"", "monet"} : SetQuery(s, q, net)
        \/ ClickDetails(s, net)
        \/ \E oid \in FavoriteClickIds : ClickFavorite(s, oid, net)
        \/ ClickShowFavorites(s, net)
        \/ ClickClearFavorites(s, net)
        \/ ClickExport(s, net)
        \/ ClickBack(s, net)

NextFavorites == Favoriting("s1") \/ Tick(ttl)

SpecFavorites == Init /\ [][NextFavorites]_vars

(***************************************************************************)
(* The same page with an empty and a non-empty search text, the page size, *)
(* Next, the favorite button of one object, the favorites view and Clear,  *)
(* against a remote that fails and changes.                                *)
(***************************************************************************)
PromptReplies ==
    {Reply(TRUE, "v1", rev, {}) : rev \in Revisions}
        \cup {Reply(FALSE, "v1", "v1", {}), Reply(TRUE, "v1", "v1", FlakyIds)}

Prompting(s) ==
    \E net \in PromptReplies :
        \/ \E q \in {"", "monet"} : SetQuery(s, q, net)
        \/ \E p \in PerPageChoices : SelectPerPage(s, p, net)
        \/ ClickNext(s, net)
        \/ \E oid \in FlakyIds : ClickFavorite(s, oid, net)
        \/ ClickShowFavorites(s, net)
        \/ ClickClearFavorites(s, net)
        \/ ClickBack(s, net)

NextPrompt == Prompting("s1") \/ Tick(ttl)

SpecPrompt == Init /\ [][NextPrompt]_vars

(***************************************************************************)
(* The same page with everything that a saved favorite has to survive: two *)
(* query texts with results, the page size, Next, failed searches, records *)
(* that change at the remote, and the clock; and the favorite button of    *)
(* one object and Clear.                                                   *)
(***************************************************************************)
FrameReplies ==
    {Reply(TRUE, "v1", rev, {}) : rev \in Revisions} \cup {Reply(FALSE, "v1", "v1", {})}

Framing(s) ==
    \E net \in FrameReplies :
        \/ \E q \in {"monet", "degas"} : SetQuery(s, q, net)
        \/ \E p \in PerPageChoices : SelectPerPage(s, p, net)
        \/ ClickNext(s, net)
        \/ \E oid \in FlakyIds : ClickFavorite(s, oid, net)
        \/ ClickClearFavorites(s, net)

NextFrame == Framing("s1") \/ Tick(ttl)

SpecFrame == Init /\ [][NextFrame]_vars

(***************************************************************************)
(* The same page with the runs that end early: the favorites view, the     *)
(* empty text, a search that fails and a text without results, next to a   *)
(* text with two pages of results.                                         *)
(***************************************************************************)
EarlyReplies == {Reply(TRUE, "v1", "v1", {}), Reply(FALSE, "v1", "v1", {})}

Ending(s) ==
    \E net \in EarlyReplies :
        \/ \E q \in Queries : SetQuery(s, q, net)
        \/ \E p \in PerPageChoices : SelectPerPage(s, p, net)
        \/ ClickNext(s, net)
        \/ ClickShowFavorites(s, net)
        \/ ClickBack(s, net)

NextEarly == Ending("s1") \/ Tick(ttl)

SpecEarly == Init /\ [][NextEarly]_vars

(***************************************************************************)
(* Two sessions on one server process: each has its own st.session_state   *)
(* and widgets, both call the same st.cache_data stores.                   *)
(***************************************************************************)
SessionReplies == {Reply(TRUE, "v1", "v1", {}), Reply(TRUE, "v2", "v2", {})}

Sharing(s) ==
    \E net \in SessionReplies :
        \/ \E q \in {"", "monet"} : SetQuery(s, q, net)
        \/ \E p \in PerPageChoices : SelectPerPage(s, p, net)
        \/ ClickNext(s, net)
        \/ \E oid \in FlakyIds : ClickFavorite(s, oid, net)
        \/ ClickClearFavorites(s, net)

NextSessions == \E s \in Sessions : Sharing(s)

SpecSessions == Init /\ [][NextSessions]_vars

(***************************************************************************)
(* Claims about searching and paging                                       *)
(***************************************************************************)
\* Session s made the step: one run of the script.
Ran(s) == actor' = s /\ now' = now

\* C1: whenever a gallery is rendered, the page number used for slicing is
\* within 1..ceil(|ResultSet| / pageSize).
C1_PageWithinRange ==
    \A s \in Sessions :
        Shown(s).kind = "gallery" =>
            1 <= Shown(s).page /\ Shown(s).page <= Shown(s).total_pages

\* C2: a run that renders a gallery for a query text other than last_query
\* shows the slice of page 1 and leaves page = 1 and last_query = the text,
\* whatever page number was stored before.
C2_FreshQueryStartsAtPageOne ==
    \A s \in Sessions :
        LET v == Shown(s)
        IN  (v.kind = "gallery" /\ v.query # v.before.last_query) =>
                /\ v.page = 1
                /\ v.page_ids = SubSeq(v.ids, 1, Min(session_state[s].per_page, Len(v.ids)))
                /\ session_state[s].last_query = v.query
                /\ session_state[s].page =
                       IF view[s].event = "next" /\ 1 < v.total_pages THEN 2 ELSE 1

\* A fresh, smaller result set is rendered while page 2 was still stored.
C2_Witness ==
    \E s \in Sessions :
        LET v == Shown(s)
        IN  /\ v.kind = "gallery" /\ v.query # v.before.last_query
            /\ v.before.page = 2 /\ v.page = 1
            /\ Len(v.ids) = 6 /\ session_state[s].per_page = 6

\* C3: the reset compares (text, imageFilter): a gallery run whose pair
\* differs from the pair of the gallery rendered before it starts at page 1.
C3_ResetOnSearchQueryChange ==
    [][\A s \in Sessions :
          (/\ Ran(s)
           /\ Shown(s).kind = "gallery"
           /\ view'[s].out.kind = "gallery"
           /\ <<view'[s].out.query, view'[s].out.has_images>>
                  # <<Shown(s).query, Shown(s).has_images>>)
          => view'[s].out.page = 1]_vars

\* C4: Previous stores page - 1 only if page > 1, Next stores page + 1 only if
\* page < total_pages, otherwise the page stays; neither changes last_query,
\* per_page or favorites.  (A run that ends before the gallery evaluates no
\* navigation button.)
C4_NavigationGuards ==
    [][\A s \in Sessions :
          Ran(s) =>
              LET ev  == view'[s].event
                  v   == view'[s].out
                  old == session_state[s]
                  new == session_state'[s]
              IN  /\ ev = "previous" =>
                        new.page = IF v.kind = "gallery" /\ old.page > 1
                                   THEN old.page - 1 ELSE old.page
                  /\ ev = "next" =>
                        new.page = IF v.kind = "gallery" /\ old.page < v.total_pages
                                   THEN old.page + 1 ELSE old.page
                  /\ ev \in {"previous", "next"} =>
                        /\ new.last_query = old.last_query
                        /\ new.per_page = old.per_page
                        /\ new.favorites = old.favorites]_vars

\* Next was clicked on the last of two pages and the stored page stayed.
C4_Witness ==
    \E s \in Sessions :
        /\ view[s].event = "next" /\ Shown(s).kind = "gallery"
        /\ Shown(s).total_pages = 2 /\ Shown(s).page = 2
        /\ session_state[s].page = 2

\* C16: the query-change step applied twice with one query text gives what
\* one application gives; and of two runs in a row that reach the step with
\* the same text (both render a gallery), the second, unless it is a click
\* on Previous or Next, leaves page and last_query as the first left them.
C16_QueryChangeIdempotent ==
    [][\A s \in Sessions :
          /\ \A q \in Queries \ {""} :
                ResetPage(ResetPage(session_state[s], q), q) = ResetPage(session_state[s], q)
          /\ (/\ Ran(s)
              /\ Shown(s).kind = "gallery"
              /\ view'[s].out.kind = "gallery"
              /\ view'[s].out.query = Shown(s).query
              /\ view'[s].event \notin {"previous", "next"})
             => /\ session_state'[s].page = session_state[s].page
                /\ session_state'[s].last_query = session_state[s].last_query
                /\ session_state'[s].last_query = view'[s].out.query]_vars

\* A rerun with the text of the run before it, entered with page 2 stored
\* by a click on Next: the step found the text unchanged and page 2 stayed.
C16_Witness ==
    \E s \in Sessions :
        LET v == Shown(s)
        IN  /\ v.kind = "gallery" /\ view[s].event = "input"
            /\ v.before.last_query = v.query
            /\ v.before.page = 2 /\ v.page = 2 /\ session_state[s].page = 2
            /\ session_state[s].last_query = v.query

\* C17: a gallery run whose page has its start index (page - 1) * per_page
\* at or beyond the length of the result renders the empty slice and no
\* item, under the page number it found stored, and leaves that number
\* stored (Previous apart, which passes its guard); the slice of any page
\* that starts beyond the result is empty, that of any other page is not.
C17_SliceDoesNotClamp ==
    \A s \in Sessions :
        LET v   == Shown(s)
            per == session_state[s].per_page
        IN  v.kind = "gallery" =>
                /\ \A p \in 1..(v.total_pages + 2) :
                      (page_ids(v.ids, per, p) = <<>>) <=> ((p - 1) * per >= Len(v.ids))
                /\ ((v.page - 1) * per >= Len(v.ids)) =>
                      /\ v.page_ids = <<>>
                      /\ v.items = <<>>
                      /\ v.page = v.before.page
                      /\ v.page > v.total_pages
                      /\ view[s].event # "previous" => session_state[s].page = v.page

\* Seven ids at twelve per page with page 2 stored: 'Page 2 / 1', nothing
\* shown, page 2 kept.
C17_Witness ==
    \E s \in Sessions :
        LET v == Shown(s)
        IN  /\ v.kind = "gallery" /\ Len(v.ids) = 7 /\ session_state[s].per_page = 12
            /\ v.page = 2 /\ v.total_pages = 1 /\ v.page_ids = <<>>
            /\ session_state[s].page = 2

\* C18: a run that renders a gallery labels and slices the page it found
\* stored (page 1 if the text differs from last_query); a click on Previous
\* or Next that passes its guard stores the neighbouring page after that,
\* so the run ends with the stored page one off the page displayed, and any
\* other gallery run ends with the page displayed stored.
C18_DisplayedPageLags ==
    [][\A s \in Sessions :
          (Ran(s) /\ view'[s].out.kind = "gallery") =>
              LET v     == view'[s].out
                  ev    == view'[s].event
                  per   == session_state'[s].per_page
                  start == IF v.query # session_state[s].last_query THEN 1
                           ELSE session_state[s].page
                  first == (start - 1) * per + 1
                  last  == Min(start * per, Len(v.ids))
              IN  /\ v.page = start
                  /\ v.page_ids = IF first > last THEN <<>> ELSE SubSeq(v.ids, first, last)
                  /\ session_state'[s].page =
                        IF ev = "next" /\ start < v.total_pages THEN start + 1
                        ELSE IF ev = "previous" /\ start > 1 THEN start - 1
                        ELSE start]_vars

\* The run of a click on Next: page 1 labelled and shown, page 2 stored.
C18_Witness ==
    \E s \in Sessions :
        LET v == Shown(s)
        IN  /\ v.kind = "gallery" /\ view[s].event = "next"
            /\ v.page = 1 /\ v.total_pages = 2
            /\ v.page_ids = SubSeq(v.ids, 1, 6)
            /\ session_state[s].page = 2

(***************************************************************************)
(* Claims about the result cache and remote failures                       *)
(***************************************************************************)
\* The run reached met_search.
Searched(v) == v.kind \in {"error", "noresults", "gallery"}

SearchKey(v) == <<v.query, v.has_images>>

\* Time t falls in the validity window of the stored entry e.
InWindow(e, t) == e.stored /\ e.ts <= t /\ t < e.ts + ttl

\* The positions of object oid among the items of a view.
ItemsOf(v, oid) == {i \in 1..Len(v.items) : v.items[i].oid = oid}

\* C7: two lookups of one key that both fall in the validity window of a
\* stored entry return the same result, and make at most one remote call
\* between them.  The two lookups are those of two runs in a row.
C7_CacheHit ==
    [][\A s \in Sessions :
          Ran(s) =>
              LET old == Shown(s)
                  new == view'[s].out
              IN  /\ (/\ Searched(new)
                      /\ old.kind \in {"noresults", "gallery"}
                      /\ SearchKey(old) = SearchKey(new)
                      /\ InWindow(search_cache[SearchKey(new)], now))
                     => /\ new.kind # "error"
                        /\ new.ids = old.ids
                        /\ old.search_requests + new.search_requests <= 1
                  /\ \A oid \in ObjectIds :
                        \A i \in ItemsOf(old, oid), j \in ItemsOf(new, oid) :
                            (old.items[i].ok /\ InWindow(object_cache[oid], now))
                            => /\ new.items[j].ok
                               /\ new.items[j].meta = old.items[i].meta
                               /\ old.items[i].requests + new.items[j].requests <= 1]_vars

\* A rerun half a window after the search was stored: served from the cache,
\* objects included.
C7_Witness ==
    \E s \in Sessions :
        LET v == Shown(s)
        IN  /\ v.kind = "gallery" /\ v.search_requests = 0
            /\ v.search_found.stored /\ v.search_found.ts < v.at
            /\ \A i \in 1..Len(v.items) : v.items[i].ok /\ v.items[i].requests = 0

\* C8: a lookup is served from the store only within the validity window of
\* the entry (3600 s from its insertion); any other lookup calls the remote
\* API once and, if the call succeeds, stores its result with the current
\* time and returns it.
C8_CacheExpiry ==
    [][\A s \in Sessions :
          Ran(s) =>
              LET new == view'[s].out
                  e   == search_cache[SearchKey(new)]
              IN  /\ Searched(new) =>
                        /\ new.search_requests = 0 =>
                              InWindow(e, now) /\ new.kind # "error" /\ new.ids = e.value
                        /\ ~InWindow(e, now) =>
                              /\ new.search_requests = 1
                              /\ new.kind # "error" =>
                                    search_cache'[SearchKey(new)] =
                                        [stored |-> TRUE, ts |-> now, value |-> new.ids]
                  /\ \A i \in 1..Len(new.items) :
                        LET it == new.items[i]
                            o  == object_cache[it.oid]
                        IN  /\ it.requests = 0 =>
                                  InWindow(o, now) /\ it.ok /\ it.meta = o.value
                            /\ ~InWindow(o, now) =>
                                  /\ it.requests = 1
                                  /\ it.ok => object_cache'[it.oid] =
                                        [stored |-> TRUE, ts |-> now, value |-> it.meta]]_vars

\* A search found its entry expired, called the remote API and stored anew.
C8_Witness ==
    \E s \in Sessions :
        LET v == Shown(s)
        IN  /\ v.kind = "gallery" /\ v.search_requests = 1
            /\ v.search_found.stored /\ v.at - v.search_found.ts >= ttl
            /\ search_cache[SearchKey(v)].ts = v.at
            /\ search_cache[SearchKey(v)].value = v.ids

\* C10: a failed search ends the run with the failure advisory after one
\* remote call, stores nothing and leaves page and last_query alone; a failed
\* object call skips that item after one remote call, stores nothing, and
\* the loop goes on to the remaining items of the page; the lookup that
\* failed in one run calls the remote API again in the next.
C10_RemoteFailures ==
    [][\A s \in Sessions :
          Ran(s) =>
              LET old == Shown(s)
                  new == view'[s].out
              IN  /\ new.kind = "error" =>
                        /\ new.search_requests = 1
                        /\ new.items = <<>>
                        /\ search_cache' = search_cache
                        /\ object_cache' = object_cache
                        /\ session_state'[s].page = session_state[s].page
                        /\ session_state'[s].last_query = session_state[s].last_query
                  /\ new.kind = "gallery" =>
                        /\ Len(new.items) = Len(new.page_ids)
                        /\ \A i \in 1..Len(new.items) :
                              /\ new.items[i].oid = new.page_ids[i]
                              /\ new.items[i].requests \in {0, 1}
                              /\ ~new.items[i].ok =>
                                    /\ new.items[i].requests = 1
                                    /\ ~InWindow(object_cache'[new.items[i].oid], now)
                  /\ (old.kind = "error" /\ Searched(new) /\ SearchKey(new) = SearchKey(old))
                     => new.search_requests = 1
                  /\ \A oid \in ObjectIds :
                        \A i \in ItemsOf(old, oid), j \in ItemsOf(new, oid) :
                            ~old.items[i].ok => new.items[j].requests = 1]_vars

\* An object call failed and the items after it were rendered.
C10_Witness ==
    \E s \in Sessions :
        LET v == Shown(s)
        IN  /\ v.kind = "gallery" /\ Len(v.items) = 7
            /\ ~v.items[2].ok /\ v.items[2].requests = 1
            /\ \A i \in 3..7 : v.items[i].ok

\* C12: whatever the remote replies to a rerun of the page that reaches the
\* search: a response without objectIDs, or with a null or empty one, gives
\* the empty result, stored as such, and the 'no results' advisory; the
\* failure advisory is shown exactly when the search call was made and
\* raised; a gallery is shown exactly when the result has ids.
C12_ZeroResultsNotError ==
    \A s \in Sessions, net \in PagingReplies :
        LET w     == widgets[s]
            has   == IF w.only_with_images THEN "True" ELSE "None"
            param == IF w.only_with_images THEN "true" ELSE "absent"
            js    == RemoteSearch(w.query, param, net.catalog)
            hit   == InWindow(search_cache[<<w.query, has>>], now)
            run   == Script(session_state[s], w, NoClick, search_cache, object_cache,
                            now, net)
            out   == run.view
        IN  (~session_state[s].show_favorites /\ w.query # "") =>
                /\ out.kind = "error" <=> (~hit /\ ~net.search_ok)
                /\ (~hit /\ net.search_ok /\ (~js.present \/ js.objectIDs = <<>>)) =>
                      /\ out.kind = "noresults"
                      /\ out.ids = <<>>
                      /\ out.search_requests = 1
                      /\ run.search_cache[<<w.query, has>>] =
                             [stored |-> TRUE, ts |-> now, value |-> <<>>]
                /\ out.kind = "noresults" => out.ids = <<>> /\ out.items = <<>>
                /\ out.kind = "gallery" <=> (out.kind # "error" /\ out.ids # <<>>)

\* A search that was sent and came back without ids: the advisory, and the
\* empty list in the store.
C12_Witness ==
    \E s \in Sessions :
        /\ Shown(s).kind = "noresults" /\ Shown(s).query = "renoir"
        /\ Shown(s).search_requests = 1 /\ Shown(s).ids = <<>>
        /\ search_cache[SearchKey(Shown(s))] =
               [stored |-> TRUE, ts |-> Shown(s).at, value |-> <<>>]

(***************************************************************************)
(* Claims about runs that end early, sessions and the favorites            *)
(***************************************************************************)
\* C11: in every run whose search text is empty no remote search request is
\* issued (met_search itself returns [] for it without a request), the run
\* ends in the prompt, and page, last_query, per_page and favorites are
\* left as they were.
C11_EmptyInputShortCircuit ==
    [][\A s \in Sessions :
          (Ran(s) /\ widgets'[s].query = "") =>
              /\ view'[s].out.kind = "prompt"
              /\ view'[s].out.search_requests = 0
              /\ search_cache' = search_cache
              /\ session_state'[s].page = session_state[s].page
              /\ session_state'[s].last_query = session_state[s].last_query
              /\ session_state'[s].per_page = session_state[s].per_page
              /\ session_state'[s].favorites = session_state[s].favorites
              /\ \A has \in HasImagesArgs, net \in PromptReplies :
                    LET r == met_search(search_cache, "", has, now, net)
                    IN  r.ok /\ r.value = <<>> /\ r.requests = 0]_vars

\* C11 as amended: a run whose search text is empty issues no remote request
\* and never ends in the failure advisory; it ends in the prompt unless the
\* favorites view is open or being opened, which is shown instead; page and
\* last_query are left as they were, per_page is the value selected in the
\* sidebar, and the favorites are left as they were unless Clear favorites
\* was clicked, which empties them.
C11_EmptyInputAmended ==
    [][\A s \in Sessions :
          (Ran(s) /\ widgets'[s].query = "") =>
              LET ev == view'[s].event
              IN  /\ view'[s].out.kind =
                        IF session_state[s].show_favorites \/ ev = "show_favorites"
                        THEN "favorites" ELSE "prompt"
                  /\ view'[s].out.search_requests = 0
                  /\ search_cache' = search_cache
                  /\ object_cache' = object_cache
                  /\ session_state'[s].page = session_state[s].page
                  /\ session_state'[s].last_query = session_state[s].last_query
                  /\ session_state'[s].per_page = widgets'[s].per_page
                  /\ session_state'[s].favorites =
                        IF ev = "clear_favorites" THEN <<>> ELSE session_state[s].favorites
                  /\ \A has \in HasImagesArgs, net \in PromptReplies :
                        LET r == met_search(search_cache, "", has, now, net)
                        IN  r.ok /\ r.value = <<>> /\ r.requests = 0]_vars

\* The text was emptied on page 2 of a query with a favorite saved: the
\* prompt, and all of it kept.
C11_Witness ==
    \E s \in Sessions :
        /\ widgets[s].query = "" /\ Shown(s).kind = "prompt"
        /\ view[s].event = "input"
        /\ session_state[s].page = 2 /\ session_state[s].last_query = "monet"
        /\ session_state[s].favorites # <<>>

\* What a search of key k can return from the remote, whatever its state.
SearchResultsOf(k) ==
    {LET js == RemoteSearch(k[1], IF k[2] = "True" THEN "true"
                                  ELSE IF k[2] = "False" THEN "false" ELSE "absent", cat)
     IN  IF js.present THEN js.objectIDs ELSE <<>> : cat \in Catalogs}

\* The buttons that an event stands for.
ClicksOf(event) ==
    IF event = "favorite" THEN {[NoClick EXCEPT !.favorite = o] : o \in ObjectIds}
    ELSE {[NoClick EXCEPT !.show_favorites = (event = "show_favorites"),
                          !.clear_favorites = (event = "clear_favorites"),
                          !.export = (event = "export"),
                          !.back = (event = "back"),
                          !.previous = (event = "previous"),
                          !.next = (event = "next")]}

\* Every stored entry is a value the remote gives for its key.
CacheKeyedByInput ==
    /\ \A k \in SearchKeys :
          search_cache[k].stored => search_cache[k].value \in SearchResultsOf(k)
    /\ \A o \in ObjectIds :
          object_cache[o].stored =>
              object_cache[o].value \in {RemoteObject(o, rev) : rev \in Revisions}

\* C13: a run of one session leaves the page, last_query, per_page,
\* favorites, widgets and view of every other session as they were, and its
\* own outcome is that of the script on its own session state, its own
\* widgets and clicks, the two cache stores, the clock and the remote reply
\* alone; the cache stores, which are shared, hold for each key a value the
\* remote gives for that key.
C13_SessionIsolation ==
    /\ []CacheKeyedByInput
    /\ [][\A s \in Sessions :
            Ran(s) =>
                /\ \A t \in Sessions \ {s} :
                      /\ session_state'[t] = session_state[t]
                      /\ widgets'[t] = widgets[t]
                      /\ view'[t] = view[t]
                /\ \E net \in SessionReplies, c \in ClicksOf(view'[s].event) :
                      LET r == Script(session_state[s], widgets'[s], c, search_cache,
                                      object_cache, now, net)
                      IN  /\ session_state'[s] = r.session_state
                          /\ view'[s].out = r.view
                          /\ search_cache' = r.search_cache
                          /\ object_cache' = r.object_cache]_vars

\* The second session is served the first one's search from the store,
\* and has its own page, page size and favorites.
C13_Witness ==
    /\ actor = "s2"
    /\ Shown("s2").kind = "gallery" /\ Shown("s2").search_requests = 0
    /\ Shown("s2").query = Shown("s1").query
    /\ session_state["s1"].page = 2 /\ session_state["s1"].per_page = 6
    /\ session_state["s1"].favorites # <<>>
    /\ session_state["s2"].page = 1 /\ session_state["s2"].per_page = DefaultPerPage
    /\ session_state["s2"].favorites = <<>>

\* The record that a JSON object of the export reads back as.
ParsedObject(obj) ==
    LET member(n) == CHOOSE m \in {obj[i] : i \in 1..Len(obj)} : m.name = n
    IN  [objectID |-> member("objectID").number, title |-> member("title").string]

\* doc is the export of store: one object per entry, in the store's order,
\* each reading back as the stored record, with no member more or less.
ExportOf(doc, store) ==
    /\ Len(doc) = Len(store)
    /\ \A i \in 1..Len(store) :
          /\ {doc[i][j].name : j \in 1..Len(doc[i])} = {"objectID", "title"}
          /\ Len(doc[i]) = 2
          /\ ParsedObject(doc[i]) = store[i].meta

\* C14: the export of the store, whatever it holds, is the array of its
\* metadata values in insertion order, each equal to the stored record, and
\* the empty array for the empty store; the document made by the Export
\* button is the export of the store of that run.
C14_ExportInOrder ==
    \A s \in Sessions :
        LET store == session_state[s].favorites
        IN  /\ ExportOf(ExportJSON(store), store)
            /\ store = <<>> => ExportJSON(store) = <<>>
            /\ Shown(s).export.made => ExportOf(Shown(s).export.doc, store)

\* Exported: object 2 saved before object 1, and a record that has since
\* changed at the remote.
C14_Witness ==
    \E s \in Sessions :
        /\ Shown(s).export.made /\ Len(Shown(s).export.doc) = 2
        /\ session_state[s].favorites[1].oid = 2 /\ session_state[s].favorites[2].oid = 1
        /\ session_state[s].favorites[1].meta.title # object_cache[2].value.title
        /\ object_cache[2].stored

\* The store is a dict of records fetched for their keys.
FavoritesWellFormed ==
    \A s \in Sessions :
        LET f == session_state[s].favorites
        IN  /\ \A i, j \in 1..Len(f) : i # j => f[i].oid # f[j].oid
            /\ \A i \in 1..Len(f) :
                  f[i].meta \in {RemoteObject(f[i].oid, rev) : rev \in Revisions}

\* C15: the store starts empty, its keys are unique and favorites[id] is a
\* record fetched for id; a run without a favorite or clear click, and the
\* passing of time, leave it as it was, whatever the run did (search, new
\* query text or page size, Next, expired entries, failed calls); a clear
\* click leaves it empty; a favorite click leaves it as it was, or removes
\* the entry of the object, or appends the object with the record that this
\* run fetched for it.
C15_FavoritesFrame ==
    /\ \A s \in Sessions : session_state[s].favorites = <<>>
    /\ []FavoritesWellFormed
    /\ [][/\ now' # now => session_state' = session_state
          /\ \A s \in Sessions :
                Ran(s) =>
                    LET ev  == view'[s].event
                        old == session_state[s].favorites
                        new == session_state'[s].favorites
                        its == view'[s].out.items
                    IN  /\ ev \notin {"favorite", "clear_favorites"} => new = old
                        /\ ev = "clear_favorites" => new = <<>>
                        /\ ev = "favorite" =>
                              \/ new = old
                              \/ \E i \in 1..Len(old) :
                                    new = SelectSeq(old, LAMBDA e : e.oid # old[i].oid)
                              \/ \E i \in 1..Len(its) :
                                    /\ its[i].ok
                                    /\ its[i].oid \notin {old[j].oid : j \in 1..Len(old)}
                                    /\ new = Append(old, [oid |-> its[i].oid,
                                                          meta |-> its[i].meta])]_vars

\* A search failed after the stored entries had expired and the record of
\* the favorite had changed at the remote: the favorite is as it was saved.
C15_Witness ==
    \E s \in Sessions :
        /\ Shown(s).kind = "error" /\ now = ttl
        /\ Len(session_state[s].favorites) = 1
        /\ session_state[s].favorites[1].oid = 2
        /\ session_state[s].favorites[1].meta = RemoteObject(2, "v2")
        /\ session_state[s].page = 2

\* C19: a run that does not render a gallery (favorites view, empty text,
\* failed search, no results) leaves page and last_query as they were; so a
\* gallery run for the text that is still stored as last_query renders the
\* page that is still stored, whatever texts were tried in between.
C19_EarlyEndsKeepPage ==
    [][\A s \in Sessions :
          Ran(s) =>
              LET new == view'[s].out
              IN  /\ new.kind \in {"favorites", "prompt", "error", "noresults", "gallery"}
                  /\ new.kind # "gallery" =>
                        /\ session_state'[s].page = session_state[s].page
                        /\ session_state'[s].last_query = session_state[s].last_query
                  /\ (new.kind = "gallery" /\ new.query = session_state[s].last_query) =>
                        /\ new.page = session_state[s].page
                        /\ session_state'[s].last_query = session_state[s].last_query
                  /\ (/\ new.kind = "gallery"
                      /\ Shown(s).kind \in {"error", "noresults"}
                      /\ Shown(s).query # new.query
                      /\ new.query = session_state[s].last_query
                      /\ view'[s].event = "input")
                     => new.page = session_state[s].page]_vars

\* A text without results was tried on page 2 of another text: page 2 and
\* that text are still stored.
C19_Witness ==
    \E s \in Sessions :
        /\ Shown(s).kind = "noresults" /\ Shown(s).query = "renoir"
        /\ session_state[s].page = 2 /\ session_state[s].last_query = "monet"

(***************************************************************************)
(* The pagination arithmetic on its own: total_pages and page_ids applied  *)
(* to result sets of every length up to MaxN and page sizes up to MaxPer.  *)
(***************************************************************************)
SystemAtRest ==
    /\ session_state = [s \in Sessions |-> SessionDefaults]
    /\ widgets = [s \in Sessions |-> WidgetDefaults]
    /\ view = [s \in Sessions |-> [event |-> "start", out |-> BlankView]]
    /\ search_cache = [k \in SearchKeys |-> NoSearchEntry]
    /\ object_cache = [o \in ObjectIds |-> NoObjectEntry]
    /\ now = 0
    /\ actor = "none"

SystemUnchanged ==
    UNCHANGED <<session_state, widgets, view, search_cache, object_cache, now, actor>>

\* A result set of n distinct ids, in descending order.
ResultSet(n) == [i \in 1..n |-> 100 + n - i]

InitPages ==
    /\ SystemAtRest
    /\ probe \in {[op |-> "ids", ids |-> ResultSet(n), per |-> per, pages |-> 0,
                   slices |-> <<>>] : n \in 0..MaxN, per \in 1..MaxPer}

CountPages ==
    /\ probe.op = "ids"
    /\ probe' = [probe EXCEPT !.op = "pages",
                              !.pages = total_pages(Len(probe.ids), probe.per)]
    /\ SystemUnchanged

\* The slice of the next page, pages 1..total_pages in turn.
SlicePage ==
    /\ probe.op = "pages"
    /\ Len(probe.slices) < probe.pages
    /\ probe' = [probe EXCEPT
                   !.slices = Append(@, page_ids(probe.ids, probe.per, Len(@) + 1))]
    /\ SystemUnchanged

NextPages == CountPages \/ SlicePage

SpecPages == InitPages /\ [][NextPages]_vars

RECURSIVE Concat(_)
Concat(seqs) == IF seqs = <<>> THEN <<>> ELSE Head(seqs) \o Concat(Tail(seqs))

\* C5: the slice of page p is ids[(p-1)*P : min(p*P, N)], has min(P, N-(p-1)*P)
\* elements in the order of the result set, and the slices of pages
\* 1..total_pages concatenated are the result set.
C5_SlicesPartition ==
    probe.op = "pages" =>
        LET N == Len(probe.ids)
            P == probe.per
        IN  /\ \A p \in 1..Len(probe.slices) :
                  /\ Len(probe.slices[p]) = Min(P, N - (p - 1) * P)
                  /\ \A j \in 1..Len(probe.slices[p]) :
                        probe.slices[p][j] = probe.ids[(p - 1) * P + j]
            /\ Len(probe.slices) = probe.pages => Concat(probe.slices) = probe.ids

\* 29 ids at 12 per page: three slices, of 12, 12 and 5 ids.
C5_Witness ==
    /\ probe.op = "pages" /\ Len(probe.ids) = 29 /\ probe.per = 12
    /\ Len(probe.slices) = 3 /\ Len(probe.slices[1]) = 12 /\ Len(probe.slices[3]) = 5

\* C6: (N + P - 1) // P is ceil(N / P), the least k with k * P >= N, and is 0
\* when N is 0.
C6_TotalPagesIsCeiling ==
    probe.op = "pages" =>
        LET N == Len(probe.ids)
            P == probe.per
        IN  /\ probe.pages * P >= N
            /\ probe.pages >= 0
            /\ probe.pages > 0 => (probe.pages - 1) * P < N
            /\ N = 0 => probe.pages = 0

\* Page counts with and without a remainder, and of the empty result set.
C6_Witness ==
    /\ probe.op = "pages" /\ Len(probe.ids) = 29 /\ probe.per = 12 /\ probe.pages = 3

(***************************************************************************)
(* The favorite toggle on its own: two toggles of one (oid, meta) on every *)
(* store over MaxFav object ids.                                           *)
(***************************************************************************)
FavIds == 1..MaxFav

Metas == {RemoteObject(o, r) : o \in FavIds, r \in Revisions}

\* A dict entry: an object id with a record fetched for it.
Entries == {[oid |-> m.objectID, meta |-> m] : m \in Metas}

\* The dicts over FavIds: sequences of entries with distinct keys.
Stores ==
    {f \in UNION {[1..n -> Entries] : n \in 0..MaxFav} :
        \A i, j \in 1..Len(f) : i # j => f[i].oid # f[j].oid}

InitToggle ==
    /\ SystemAtRest
    /\ probe \in {[op |-> "store", original |-> f, favorites |-> f, oid |-> m.objectID,
                   meta |-> m, toggles |-> 0] : f \in Stores, m \in Metas}

Toggle ==
    /\ probe.op = "store"
    /\ probe.toggles < 2
    /\ probe' = [probe EXCEPT
                   !.favorites = FavoriteToggle(@, probe.oid, probe.meta),
                   !.toggles = @ + 1]
    /\ SystemUnchanged

NextToggle == Toggle

SpecToggle == InitToggle /\ [][NextToggle]_vars

\* C9: two toggles in a row leave the store as export observes it (keys,
\* values, iteration order) as it was, whether the id was absent or present.
C9_ToggleTwiceRestores ==
    (probe.op = "store" /\ probe.toggles = 2) => probe.favorites = probe.original

\* C9 as amended: an id absent at the start leaves the store exactly as it
\* was; an id present at the start ends as the last entry, with the metadata
\* passed to the toggle, after the other entries in their order.
C9_ToggleTwiceAmended ==
    (probe.op = "store" /\ probe.toggles = 2) =>
        LET others == SelectSeq(probe.original, LAMBDA e : e.oid # probe.oid)
        IN  IF others = probe.original
            THEN probe.favorites = probe.original
            ELSE probe.favorites = others \o <<[oid |-> probe.oid, meta |-> probe.meta]>>

\* Toggled twice, an id that was first of two entries is now the second.
C9_Witness ==
    /\ probe.op = "store" /\ probe.toggles = 2
    /\ Len(probe.original) = 2 /\ probe.original[1].oid = probe.oid
    /\ probe.favorites[2].oid = probe.oid

====
